---- MODULE Spec2Model ----
(***************************************************************************)
(* Three-sequence alignment as a highest-weight path problem.              *)
(*                                                                         *)
(*   Blosum62             scoring matrix, gap cost, sum of pairs           *)
(*   WDAGraphFileBuilder  writes the edit graph of three sequences         *)
(*   WDAGraph             loads a graph description, runs the dynamic      *)
(*                        program and reports the winning path             *)
(*                                                                         *)
(* Text is modelled as a sequence of one-character strings, a line of the  *)
(* graph description as the sequence of its space separated tokens.        *)
(* Pointers are indices into the sequence of allocated objects, NULL is 0. *)
(***************************************************************************)
EXTENDS Integers, Sequences, FiniteSets, TLC

VARIABLES
    fasta,              \* driver: the three sequences handed to the builder, <<>> if none
    graphFile,          \* the graph description file: a sequence of lines
    pc,                 \* driver: "file" until WDAGraph(graphFileName) has run, then
                        \* "ready", "reported" after resultString, "hung" when it
                        \* loops, "aborted" when the builder has thrown
    vertices,           \* WDAGraph::vertices, the Vertex objects in file order
    verticeMap,         \* WDAGraph::verticeMap, label -> Vertex*
    edgeHeap,           \* the Edge objects in allocation order
    edges,              \* WDAGraph::edges, vertex label -> vector<Edge*>
    startNode,          \* WDAGraph::startNode
    endNode,            \* WDAGraph::endNode
    highestWeightNode,  \* WDAGraph::highestWeightNode
    edgeWeights,        \* WDAGraph::edgeWeights, edge label -> weight
    edgeFrequencies,    \* WDAGraph::edgeFrequencies, edge label -> count
    runs,               \* number of findHighestWeightPath calls made so far
    report,             \* the last resultString(), <<>> before the first call
    residues,           \* the arguments residue1, residue2, residue3 of a direct call
                        \* of a Blosum62 method, <<>> if none is made
    score               \* what that call gave: the method, whether it threw, and the
                        \* value returned; <<>> before the call

vars == <<fasta, graphFile, pc, vertices, verticeMap, edgeHeap, edges,
          startNode, endNode, highestWeightNode, edgeWeights, edgeFrequencies,
          runs, report, residues, score>>

scoreVars == <<residues, score>>

graphVars == <<vertices, verticeMap, edgeHeap, edges, startNode, endNode,
               highestWeightNode, edgeWeights, edgeFrequencies>>

(***************************************************************************)
(* Bounds of the model.                                                    *)
(***************************************************************************)
MaxVertices == 3     \* vertex lines of a hand-written description
MaxEdges == 2        \* edge lines of a hand-written description
MaxSeqLen == 2       \* length of each sequence handed to the builder
MaxRuns == 2         \* calls of findHighestWeightPath on one graph

NULL == 0
INT_MIN == -2147483647 - 1

(***************************************************************************)
(* Text helpers.                                                           *)
(***************************************************************************)
Digits == <<"0", "1", "2", "3", "4", "5", "6", "7", "8", "9">>

RECURSIVE FormatNat(_)
\* operator<<(int) for a non-negative value: its decimal digits
FormatNat(n) ==
    IF n < 10 THEN <<Digits[n + 1]>>
    ELSE FormatNat(n \div 10) \o <<Digits[(n % 10) + 1]>>

\* operator<<(int): a minus sign and the decimal digits
FormatInt(n) == IF n < 0 THEN <<"-">> \o FormatNat(0 - n) ELSE FormatNat(n)

DigitValue(c) == CHOOSE d \in 0..9 : Digits[d + 1] = c

IsDigit(c) == \E d \in 0..9 : Digits[d + 1] = c

RECURSIVE ParseNat(_, _)
\* the value of the longest prefix of decimal digits, acc the value so far
ParseNat(s, acc) ==
    IF s = <<>> \/ ~IsDigit(Head(s)) THEN acc
    ELSE ParseNat(Tail(s), acc * 10 + DigitValue(Head(s)))

\* the sign of the token is dropped
Atof_signDropped(s) ==
    IF s = <<>> THEN 0
    ELSE IF Head(s) = "-" \/ Head(s) = "+" THEN ParseNat(Tail(s), 0)
    ELSE ParseNat(s, 0)

\* atof on a token without fraction or exponent: optional sign, then digits;
\* a token that does not start with a number converts to 0
Atof(s) ==
    IF s = <<>> THEN 0
    ELSE IF Head(s) = "-" THEN 0 - ParseNat(Tail(s), 0)
    ELSE IF Head(s) = "+" THEN ParseNat(Tail(s), 0)
    ELSE ParseNat(s, 0)

RECURSIVE Reverse(_)
\* string(s.rbegin(), s.rend())
Reverse(s) == IF s = <<>> THEN <<>> ELSE Reverse(Tail(s)) \o <<Head(s)>>

tV == <<"V">>
tE == <<"E">>
tSTART == <<"S", "T", "A", "R", "T">>
tEND == <<"E", "N", "D">>
NewLine == "\n"

(***************************************************************************)
(* WDAGraph: loading a graph description.                                  *)
(***************************************************************************)

\* WDAGraph(aGraphFileName) before buildGraph: the three pointers are NULL,
\* the collections are empty
EmptyGraph ==
    [vertices |-> <<>>, verticeMap |-> <<>>, edgeHeap |-> <<>>, edges |-> <<>>,
     startNode |-> NULL, endNode |-> NULL, highestWeightNode |-> NULL,
     edgeWeights |-> <<>>, edgeFrequencies |-> <<>>]

\* the engine's fields as one record
Graph ==
    [vertices |-> vertices, verticeMap |-> verticeMap, edgeHeap |-> edgeHeap,
     edges |-> edges, startNode |-> startNode, endNode |-> endNode,
     highestWeightNode |-> highestWeightNode, edgeWeights |-> edgeWeights,
     edgeFrequencies |-> edgeFrequencies]

\* map[key] = value
Put(map, key, value) == (key :> value) @@ map

addVertex(g, tokens) ==
    LET vertex == Len(g.vertices) + 1
        label == tokens[2]
        obj == [label |-> label, weight |-> INT_MIN, edgeForHWPath |-> NULL]
        isStart == Len(tokens) > 2 /\ tokens[3] = tSTART
        isEnd == Len(tokens) > 2 /\ tokens[3] # tSTART /\ tokens[3] = tEND
    IN  [g EXCEPT !.vertices = Append(@, obj),
                  !.startNode = IF isStart THEN vertex ELSE @,
                  !.endNode = IF isEnd THEN vertex ELSE @,
                  !.verticeMap = Put(@, label, vertex),
                  !.edges = Put(@, label, <<>>)]

\* edgeFrequencies[edge->label] = freqIter->second++ modifies the same int twice
\* without sequencing: depending on the build the stored count is the old one
\* (the increment is lost) or the incremented one.  incrementKept is that choice.
addEdge(g, tokens, incrementKept) ==
    LET edge == Len(g.edgeHeap) + 1
        obj == [label |-> tokens[2],
                start |-> g.verticeMap[tokens[3]],
                end |-> g.verticeMap[tokens[4]],
                weight |-> Atof(tokens[5])]
        startLabel == g.vertices[obj.start].label
        endLabel == g.vertices[obj.end].label
        edges1 == [g.edges EXCEPT ![startLabel] = Append(@, edge)]
        edges2 == [edges1 EXCEPT ![endLabel] = Append(@, edge)]
    IN  [g EXCEPT !.edgeHeap = Append(@, obj),
                  !.edges = edges2,
                  !.edgeWeights =
                      IF obj.label \in DOMAIN @ THEN @ ELSE Put(@, obj.label, obj.weight),
                  !.edgeFrequencies =
                      IF obj.label \in DOMAIN @
                      THEN Put(@, obj.label, IF incrementKept THEN @[obj.label] + 1
                                             ELSE @[obj.label])
                      ELSE Put(@, obj.label, 1)]

\* one pass of the while loop of buildGraph: the line is split and added
readLine(g, tokens, incrementKept) ==
    IF tokens[1] = tV THEN addVertex(g, tokens)
    ELSE IF tokens[1] = tE THEN addEdge(g, tokens, incrementKept)
    ELSE g

RECURSIVE readLines(_, _, _, _, _)
\* lines first..last of the file are read into g in order; the range is read
\* as two halves, one after the other, which keeps the evaluation shallow
readLines(g, lines, first, last, incrementKept) ==
    IF first > last THEN g
    ELSE IF first = last THEN readLine(g, lines[first], incrementKept)
    ELSE LET middle == (first + last) \div 2
             g1 == readLines(g, lines, first, middle, incrementKept)
         IN  IF Len(g1.vertices) >= 0
             THEN readLines(g1, lines, middle + 1, last, incrementKept)
             ELSE g1

buildGraph(g, lines, incrementKept) == readLines(g, lines, 1, Len(lines), incrementKept)

\* the START designation of the file is ignored
isStartConstrained_never(g) == FALSE

\* the START designation counts only while no best terminal vertex is recorded
isStartConstrained_untilFound(g) == g.startNode # NULL /\ g.highestWeightNode = NULL

isStartConstrained(g) == g.startNode # NULL

isEndConstrained(g) == g.endNode # NULL

(***************************************************************************)
(* WDAGraph::findHighestWeightPath.                                        *)
(***************************************************************************)

\* the weight of the edge alone is compared, whatever the weight of its start
pathWeightExceeds_edgeAlone(startWeight, edgeWeight, vertexWeight) ==
    edgeWeight > vertexWeight

\* pathWeight = edge->start->weight + edge->weight; pathWeight > vertex->weight.
\* The sum is a double and exact.  No stored weight is below INT_MIN, so the
\* sum of INT_MIN and a weight that is not positive exceeds none of them; that
\* case is decided without forming the sum, which does not fit 32 bits.
pathWeightExceeds(startWeight, edgeWeight, vertexWeight) ==
    IF startWeight = INT_MIN /\ edgeWeight <= 0 THEN FALSE
    ELSE startWeight + edgeWeight > vertexWeight

\* the weight of the edge alone, the weight of its start vertex left out
pathWeight_edgeOnly(startWeight, edgeWeight) == edgeWeight

\* valid only when pathWeightExceeds holds
pathWeight(startWeight, edgeWeight) == startWeight + edgeWeight

\* no edge is skipped for its start
startUnreached_never(g, edge) == FALSE

\* the test that skips an edge whose start no path has reached
startUnreached(g, edge) ==
    isStartConstrained(g) /\ g.vertices[edge.start].weight = INT_MIN

\* the weight is stored, the edge it came over is not
newWeight_noEdge(g, vertex, e, weight) ==
    [g EXCEPT !.vertices[vertex].weight = weight]

\* the path over edge e becomes the path of vertex: its weight and its edge
newWeight(g, vertex, e, weight) ==
    [g EXCEPT !.vertices[vertex].weight = weight,
              !.vertices[vertex].edgeForHWPath = e]

RECURSIVE scanEdges(_, _, _, _)
\* the loop over vertexEdges, the incident edges of vertex, from position p on
scanEdges(g, vertex, vertexEdges, p) ==
    IF p > Len(vertexEdges) THEN g
    ELSE LET e == vertexEdges[p]
             edge == g.edgeHeap[e]
             v == g.vertices[vertex]
         IN  IF g.vertices[edge.end].label # v.label
             THEN scanEdges(g, vertex, vertexEdges, p + 1)
             ELSE IF startUnreached(g, edge)
             THEN scanEdges(g, vertex, vertexEdges, p + 1)
             ELSE IF pathWeightExceeds(g.vertices[edge.start].weight, edge.weight, v.weight)
             THEN scanEdges(
                      newWeight(g, vertex, e,
                                pathWeight(g.vertices[edge.start].weight, edge.weight)),
                      vertex, vertexEdges, p + 1)
             ELSE scanEdges(g, vertex, vertexEdges, p + 1)

\* a vertex of equal weight replaces the current highestWeightNode as well
betterTerminal_orEqual(g, vertex) ==
    g.highestWeightNode = NULL
    \/ g.vertices[vertex].weight >= g.vertices[g.highestWeightNode].weight

\* the comparison of the weights the other way round
betterTerminal_lower(g, vertex) ==
    g.highestWeightNode = NULL
    \/ g.vertices[vertex].weight < g.vertices[g.highestWeightNode].weight

\* the update of highestWeightNode for paths that are not end constrained
betterTerminal(g, vertex) ==
    g.highestWeightNode = NULL
    \/ g.vertices[vertex].weight > g.vertices[g.highestWeightNode].weight

RECURSIVE scanVertices(_, _, _)
\* the loop over vertices from position vertex on
scanVertices(g, vertex, startFound) ==
    IF vertex > Len(g.vertices) THEN g
    ELSE LET label == g.vertices[vertex].label
             isStart == isStartConstrained(g) /\ ~startFound
                        /\ label = g.vertices[g.startNode].label
             skipped == isStartConstrained(g) /\ ~startFound /\ ~isStart
             found == startFound \/ isStart
             g1 == IF isStart
                   THEN [g EXCEPT !.vertices[vertex].weight = 0,
                                  !.highestWeightNode = vertex]
                   ELSE IF ~isStartConstrained(g)
                   THEN [g EXCEPT !.vertices[vertex].weight = 0]
                   ELSE g
             g2 == scanEdges(g1, vertex, g1.edges[label], 1)
         IN  IF skipped THEN scanVertices(g, vertex + 1, startFound)
             ELSE IF isEndConstrained(g2)
             THEN IF label = g2.vertices[g2.endNode].label
                  THEN [g2 EXCEPT !.highestWeightNode = vertex]
                  ELSE scanVertices(g2, vertex + 1, found)
             ELSE IF betterTerminal(g2, vertex)
             THEN scanVertices([g2 EXCEPT !.highestWeightNode = vertex], vertex + 1, found)
             ELSE scanVertices(g2, vertex + 1, found)

findHighestWeightPath(g) == scanVertices(g, 1, FALSE)

(***************************************************************************)
(* WDAGraph: the result.                                                   *)
(***************************************************************************)

RECURSIVE walkBack(_, _, _)
\* the vertex at which the walk along edgeForHWPath from aNode stops.  A walk of
\* more than Len(g.vertices) steps is on a cycle of back pointers and the loop
\* of the code never ends: steps counts the steps left, the result is NULL then.
walkBack(g, aNode, steps) ==
    IF g.vertices[aNode].edgeForHWPath = NULL THEN aNode
    ELSE IF steps = 0 THEN NULL
    ELSE walkBack(g, g.edgeHeap[g.vertices[aNode].edgeForHWPath].start, steps - 1)

\* the back pointer walk from highestWeightNode ends
walkEnds(g) ==
    g.highestWeightNode = NULL
    \/ walkBack(g, g.highestWeightNode, Len(g.vertices)) # NULL

getPathStartNodeLabel(g) ==
    IF g.highestWeightNode = NULL THEN <<>>
    ELSE g.vertices[walkBack(g, g.highestWeightNode, Len(g.vertices))].label

RECURSIVE pathStream(_, _)
\* what getPath writes to its stringstream from aNode on: each edge label and a
\* new line, walking backwards
pathStream(g, aNode) ==
    IF g.vertices[aNode].edgeForHWPath = NULL THEN <<>>
    ELSE LET anEdge == g.edgeHeap[g.vertices[aNode].edgeForHWPath]
         IN  anEdge.label \o <<NewLine>> \o pathStream(g, anEdge.start)

getPath(g) ==
    IF g.highestWeightNode = NULL THEN <<>>
    ELSE Reverse(pathStream(g, g.highestWeightNode))

\* the characters of the descriptions in the order of their codes
Ascii == <<"\n", " ", "!", "+", ",", "-", ".",
           "0", "1", "2", "3", "4", "5", "6", "7", "8", "9", "=",
           "A", "B", "C", "D", "E", "F", "G", "H", "I", "J", "K", "L", "M",
           "N", "O", "P", "Q", "R", "S", "T", "U", "V", "W", "X", "Y", "Z",
           "a", "d", "e", "h", "n", "o", "t", "u", "v">>

Ord(c) == CHOOSE i \in 1..Len(Ascii) : Ascii[i] = c

RECURSIVE Less(_, _)
\* operator< of std::string, the order in which a std::map is iterated
Less(a, b) ==
    IF b = <<>> THEN FALSE
    ELSE IF a = <<>> THEN TRUE
    ELSE IF Head(a) # Head(b) THEN Ord(Head(a)) < Ord(Head(b))
    ELSE Less(Tail(a), Tail(b))

\* stream output of a double with the given precision: a whole number of fewer
\* digits than the precision prints as an integer, INT_MIN prints in scientific
\* notation with six significant digits
FormatDouble(value, precision) ==
    IF value = INT_MIN
    THEN <<"-", "2", ".", "1", "4", "7", "4", "8", "e", "+", "0", "9">>
    ELSE FormatInt(value)

RECURSIVE mapText(_, _, _)
\* label=value, label=value, ... for the keys of map in ascending order
mapText(map, keys, precision) ==
    IF keys = {} THEN <<>>
    ELSE LET key == CHOOSE k \in keys : \A o \in keys \ {k} : Less(k, o)
         IN  key \o <<"=">> \o FormatDouble(map[key], precision) \o <<",", " ">>
             \o mapText(map, keys \ {key}, precision)

\* temp.substr(0, temp.length() - 2): the length is unsigned, so for the empty
\* string the count wraps to a large number and the result is the empty string
dropLastTwo(temp) ==
    IF Len(temp) < 2 THEN temp ELSE SubSeq(temp, 1, Len(temp) - 2)

getEdgeWeights(g) == dropLastTwo(mapText(g.edgeWeights, DOMAIN g.edgeWeights, 3))

getEdgeFrequencies(g) ==
    dropLastTwo(mapText(g.edgeFrequencies, DOMAIN g.edgeFrequencies, 6))

NoPathFound == <<"N", "o", " ", "P", "a", "t", "h", " ", "F", "o", "u", "n", "d", "!">>

\* without the path element when there is no best terminal vertex
resultString_noIndicator(g) ==
    <<  <<"edge_weights", getEdgeWeights(g)>>,
        <<"edge_histogram", getEdgeFrequencies(g)>> >>
    \o  IF g.highestWeightNode = NULL
        THEN <<>>
        ELSE << <<"score", FormatDouble(g.vertices[g.highestWeightNode].weight, 6)>>,
                <<"beginning_vertex", getPathStartNodeLabel(g)>>,
                <<"end_vertex", g.vertices[g.highestWeightNode].label>>,
                <<"path", getPath(g)>> >>

\* the result elements in the order written, each as <<type, value>>
resultString(g) ==
    <<  <<"edge_weights", getEdgeWeights(g)>>,
        <<"edge_histogram", getEdgeFrequencies(g)>> >>
    \o  IF g.highestWeightNode = NULL
        THEN << <<"path", NoPathFound>> >>
        ELSE << <<"score", FormatDouble(g.vertices[g.highestWeightNode].weight, 6)>>,
                <<"beginning_vertex", getPathStartNodeLabel(g)>>,
                <<"end_vertex", g.vertices[g.highestWeightNode].label>>,
                <<"path", getPath(g)>> >>

(***************************************************************************)
(* Blosum62.                                                               *)
(***************************************************************************)
matrix ==
    <<
        << 4, -1, -2, -2,  0, -1, -1,  0, -2, -1, -1, -1, -1, -2, -1,  1,  0, -3, -2,  0>>,
        <<-1,  5,  0, -2, -3,  1,  0, -2,  0, -3, -2,  2, -1, -3, -2, -1, -1, -3, -2, -3>>,
        <<-2,  0,  6,  1, -3,  0,  0,  0,  1, -3, -3,  0, -2, -3, -2,  1,  0, -4, -2, -3>>,
        <<-2, -2,  1,  6, -3,  0,  2, -1, -1, -3, -4, -1, -3, -3, -1,  0, -1, -4, -3, -3>>,
        << 0, -3, -3, -3,  9, -3, -4, -3, -3, -1, -1, -3, -1, -2, -3, -1, -1, -2, -2, -1>>,
        <<-1,  1,  0,  0, -3,  5,  2, -2,  0, -3, -2,  1,  0, -3, -1,  0, -1, -2, -1, -2>>,
        <<-1,  0,  0,  2, -4,  2,  5, -2,  0, -3, -3,  1, -2, -3, -1,  0, -1, -3, -2, -2>>,
        << 0, -2,  0, -1, -3, -2, -2,  6, -2, -4, -4, -2, -3, -3, -2,  0, -2, -2, -3, -3>>,
        <<-2,  0,  1, -1, -3,  0,  0, -2,  8, -3, -3, -1, -2, -1, -2, -1, -2, -2,  2, -3>>,
        <<-1, -3, -3, -3, -1, -3, -3, -4, -3,  4,  2, -3,  1,  0, -3, -2, -1, -3, -1,  3>>,
        <<-1, -2, -3, -4, -1, -2, -3, -4, -3,  2,  4, -2,  2,  0, -3, -2, -1, -2, -1,  1>>,
        <<-1,  2,  0, -1, -3,  1,  1, -2, -1, -3, -2,  5, -1, -3, -1,  0, -1, -3, -2, -2>>,
        <<-1, -1, -2, -3, -1,  0, -2, -3, -2,  1,  2, -1,  5,  0, -2, -1, -1, -1, -1,  1>>,
        <<-2, -3, -3, -3, -2, -3, -3, -3, -1,  0,  0, -3,  0,  6, -4, -2, -2,  1,  3, -1>>,
        <<-1, -2, -2, -1, -3, -1, -1, -2, -2, -3, -3, -1, -2, -4,  7, -1, -1, -4, -3, -2>>,
        << 1, -1,  1,  0, -1,  0,  0,  0, -1, -2, -2,  0, -1, -2, -1,  4,  1, -3, -2, -2>>,
        << 0, -1,  0, -1, -1, -1, -1, -2, -2, -1, -1, -1, -1, -2, -1,  1,  5, -2, -2,  0>>,
        <<-3, -3, -4, -4, -2, -2, -3, -2, -2, -3, -2, -3, -1,  1, -4, -3, -2, 11,  2, -3>>,
        <<-2, -2, -2, -3, -2, -1, -2, -3,  2, -1, -1, -2, -1,  3, -3, -2, -2,  2,  7, -1>>,
        << 0, -3, -3, -3, -1, -2, -2, -3, -3,  3,  1, -2,  1, -1, -2, -2,  0, -3, -1,  4>>
    >>

createResidueMap ==
    ("A" :> 0) @@ ("R" :> 1) @@ ("N" :> 2) @@ ("D" :> 3) @@ ("C" :> 4) @@
    ("Q" :> 5) @@ ("E" :> 6) @@ ("G" :> 7) @@ ("H" :> 8) @@ ("I" :> 9) @@
    ("L" :> 10) @@ ("K" :> 11) @@ ("M" :> 12) @@ ("F" :> 13) @@ ("P" :> 14) @@
    ("S" :> 15) @@ ("T" :> 16) @@ ("W" :> 17) @@ ("Y" :> 18) @@ ("V" :> 19)

residueMap == createResidueMap

gapChar == "-"

\* residueMap.at(residue) throws std::out_of_range for a character that is no key
getIndexThrows(residue) == residue \notin DOMAIN residueMap

getIndex(residue) == residueMap[residue]

gapCost == -6

\* getScore ends with the exception of getIndex
getScoreThrows(residue1, residue2) ==
    /\ residue1 # gapChar
    /\ residue2 # gapChar
    /\ (getIndexThrows(residue1) \/ getIndexThrows(residue2))

\* the row and the column are both looked up for residue1
getScore_residue1Twice(residue1, residue2) ==
    IF residue1 # gapChar /\ residue2 # gapChar
    THEN matrix[getIndex(residue1) + 1][getIndex(residue1) + 1]
    ELSE IF residue1 # gapChar \/ residue2 # gapChar
    THEN gapCost
    ELSE 0

\* two gap characters cost a gap as well
getScore_gapPairCosts(residue1, residue2) ==
    IF residue1 # gapChar /\ residue2 # gapChar
    THEN matrix[getIndex(residue1) + 1][getIndex(residue2) + 1]
    ELSE gapCost

\* a residue against the gap character costs nothing
getScore_gapFree(residue1, residue2) ==
    IF residue1 # gapChar /\ residue2 # gapChar
    THEN matrix[getIndex(residue1) + 1][getIndex(residue2) + 1]
    ELSE 0

getScore(residue1, residue2) ==
    IF residue1 # gapChar /\ residue2 # gapChar
    THEN matrix[getIndex(residue1) + 1][getIndex(residue2) + 1]
    ELSE IF residue1 # gapChar \/ residue2 # gapChar
    THEN gapCost
    ELSE 0

sumOfPairsWeightThrows(residue1, residue2, residue3) ==
    \/ getScoreThrows(residue1, residue2)
    \/ getScoreThrows(residue2, residue3)
    \/ getScoreThrows(residue1, residue3)

\* the pairs as the comment of the method lists them: the pair of residue1 and
\* residue2 twice, the pair of residue2 and residue3 not at all
sumOfPairsWeight_pairTwice(residue1, residue2, residue3) ==
    getScore(residue1, residue2) + getScore(residue1, residue3)
    + getScore(residue2, residue1)

sumOfPairsWeight(residue1, residue2, residue3) ==
    getScore(residue1, residue2) + getScore(residue2, residue3)
    + getScore(residue1, residue3)

(***************************************************************************)
(* WDAGraphFileBuilder.  The builder's state is its two streams, vertices  *)
(* and edges, each a sequence of lines, and thrown, set when a scoring     *)
(* lookup has thrown.                                                      *)
(***************************************************************************)

\* the label i,j,k of a vertex
VertexLabel(loc1, loc2, loc3) ==
    FormatInt(loc1) \o <<",">> \o FormatInt(loc2) \o <<",">> \o FormatInt(loc3)

\* the end vertex keeps the index of the first sequence
Builder_addEdge_loc1Kept(b, residue1, residue2, residue3, loc1, loc2, loc3) ==
    IF b.thrown THEN b
    ELSE IF sumOfPairsWeightThrows(residue1, residue2, residue3)
    THEN [b EXCEPT !.thrown = TRUE]
    ELSE [b EXCEPT !.edges = Append(@,
             <<tE,
               <<residue1, residue2, residue3>>,
               VertexLabel(loc1, loc2, loc3),
               VertexLabel(loc1,
                           IF residue2 = gapChar THEN loc2 ELSE loc2 + 1,
                           IF residue3 = gapChar THEN loc3 ELSE loc3 + 1),
               FormatInt(sumOfPairsWeight(residue1, residue2, residue3))>>)]

\* the start vertex and the end vertex are written in each other's place
Builder_addEdge_backwards(b, residue1, residue2, residue3, loc1, loc2, loc3) ==
    IF b.thrown THEN b
    ELSE IF sumOfPairsWeightThrows(residue1, residue2, residue3)
    THEN [b EXCEPT !.thrown = TRUE]
    ELSE [b EXCEPT !.edges = Append(@,
             <<tE,
               <<residue1, residue2, residue3>>,
               VertexLabel(IF residue1 = gapChar THEN loc1 ELSE loc1 + 1,
                           IF residue2 = gapChar THEN loc2 ELSE loc2 + 1,
                           IF residue3 = gapChar THEN loc3 ELSE loc3 + 1),
               VertexLabel(loc1, loc2, loc3),
               FormatInt(sumOfPairsWeight(residue1, residue2, residue3))>>)]

Builder_addEdge(b, residue1, residue2, residue3, loc1, loc2, loc3) ==
    IF b.thrown THEN b
    ELSE IF sumOfPairsWeightThrows(residue1, residue2, residue3)
    THEN [b EXCEPT !.thrown = TRUE]
    ELSE [b EXCEPT !.edges = Append(@,
             <<tE,
               <<residue1, residue2, residue3>>,
               VertexLabel(loc1, loc2, loc3),
               VertexLabel(IF residue1 = gapChar THEN loc1 ELSE loc1 + 1,
                           IF residue2 = gapChar THEN loc2 ELSE loc2 + 1,
                           IF residue3 = gapChar THEN loc3 ELSE loc3 + 1),
               FormatInt(sumOfPairsWeight(residue1, residue2, residue3))>>)]

RECURSIVE addEdges_lastDropped(_, _, _, _, _)
\* the last call of the sequence is not made
addEdges_lastDropped(b, calls, loc1, loc2, loc3) ==
    IF Len(calls) <= 1 THEN b
    ELSE LET c == Head(calls)
             b1 == IF c[1]
                   THEN Builder_addEdge(b, c[2], c[3], c[4], loc1, loc2, loc3)
                   ELSE b
         IN  addEdges_lastDropped(b1, Tail(calls), loc1, loc2, loc3)

\* a sequence of calls of Builder_addEdge, each <<condition, residue1, residue2,
\* residue3>>, made in order when its condition holds
RECURSIVE addEdges(_, _, _, _, _)
addEdges(b, calls, loc1, loc2, loc3) ==
    IF calls = <<>> THEN b
    ELSE LET c == Head(calls)
             b1 == IF c[1]
                   THEN Builder_addEdge(b, c[2], c[3], c[4], loc1, loc2, loc3)
                   ELSE b
         IN  addEdges(b1, Tail(calls), loc1, loc2, loc3)

\* no edge is written at a vertex where two or three sequences are exhausted
loopBody_terminalRegion(b, seq1, seq2, seq3, seq1Loc, seq2Loc, seq3Loc) ==
    LET in1 == seq1Loc < Len(seq1)
        in2 == seq2Loc < Len(seq2)
        in3 == seq3Loc < Len(seq3)
        \* residueN is assigned only inside its sequence and read only there
        residue1 == IF in1 THEN seq1[seq1Loc + 1] ELSE gapChar
        residue2 == IF in2 THEN seq2[seq2Loc + 1] ELSE gapChar
        residue3 == IF in3 THEN seq3[seq3Loc + 1] ELSE gapChar
        b1 == [b EXCEPT !.vertices =
                  Append(@, <<tV, VertexLabel(seq1Loc, seq2Loc, seq3Loc)>>)]
        calls ==
            IF in1 /\ in2 /\ in3
            THEN << <<TRUE, residue1, gapChar, gapChar>>,
                    <<TRUE, gapChar, residue2, gapChar>>,
                    <<TRUE, gapChar, gapChar, residue3>>,
                    <<TRUE, residue1, residue2, gapChar>>,
                    <<TRUE, gapChar, residue2, residue3>>,
                    <<TRUE, residue1, gapChar, residue3>>,
                    <<TRUE, residue1, residue2, residue3>> >>
            ELSE IF seq1Loc = Len(seq1)
            THEN << <<in2, gapChar, residue2, gapChar>>,
                    <<in3, gapChar, gapChar, residue3>>,
                    <<in2 /\ in3, gapChar, residue2, residue3>> >>
            ELSE IF seq2Loc = Len(seq2)
            THEN << <<in1, residue1, gapChar, gapChar>>,
                    <<in3, gapChar, gapChar, residue3>>,
                    <<in1 /\ in3, residue1, gapChar, residue3>> >>
            ELSE IF seq3Loc = Len(seq3)
            THEN << <<in1, residue1, gapChar, gapChar>>,
                    <<in2, gapChar, residue2, gapChar>>,
                    <<in1 /\ in2, residue1, residue2, gapChar>> >>
            ELSE <<>>
        exhausted == (IF in1 THEN 0 ELSE 1) + (IF in2 THEN 0 ELSE 1)
                     + (IF in3 THEN 0 ELSE 1)
    IN  IF b.thrown THEN b
        ELSE IF exhausted >= 2 THEN b1
        ELSE addEdges(b1, calls, seq1Loc, seq2Loc, seq3Loc)

\* the branch for the end of the third sequence is missing
loopBody_noThirdEnd(b, seq1, seq2, seq3, seq1Loc, seq2Loc, seq3Loc) ==
    LET in1 == seq1Loc < Len(seq1)
        in2 == seq2Loc < Len(seq2)
        in3 == seq3Loc < Len(seq3)
        \* residueN is assigned only inside its sequence and read only there
        residue1 == IF in1 THEN seq1[seq1Loc + 1] ELSE gapChar
        residue2 == IF in2 THEN seq2[seq2Loc + 1] ELSE gapChar
        residue3 == IF in3 THEN seq3[seq3Loc + 1] ELSE gapChar
        b1 == [b EXCEPT !.vertices =
                  Append(@, <<tV, VertexLabel(seq1Loc, seq2Loc, seq3Loc)>>)]
        calls ==
            IF in1 /\ in2 /\ in3
            THEN << <<TRUE, residue1, gapChar, gapChar>>,
                    <<TRUE, gapChar, residue2, gapChar>>,
                    <<TRUE, gapChar, gapChar, residue3>>,
                    <<TRUE, residue1, residue2, gapChar>>,
                    <<TRUE, gapChar, residue2, residue3>>,
                    <<TRUE, residue1, gapChar, residue3>>,
                    <<TRUE, residue1, residue2, residue3>> >>
            ELSE IF seq1Loc = Len(seq1)
            THEN << <<in2, gapChar, residue2, gapChar>>,
                    <<in3, gapChar, gapChar, residue3>>,
                    <<in2 /\ in3, gapChar, residue2, residue3>> >>
            ELSE IF seq2Loc = Len(seq2)
            THEN << <<in1, residue1, gapChar, gapChar>>,
                    <<in3, gapChar, gapChar, residue3>>,
                    <<in1 /\ in3, residue1, gapChar, residue3>> >>
            ELSE <<>>
    IN  IF b.thrown THEN b ELSE addEdges(b1, calls, seq1Loc, seq2Loc, seq3Loc)

\* the body of the innermost loop: the vertex line, then the edges of the vertex
loopBody(b, seq1, seq2, seq3, seq1Loc, seq2Loc, seq3Loc) ==
    LET in1 == seq1Loc < Len(seq1)
        in2 == seq2Loc < Len(seq2)
        in3 == seq3Loc < Len(seq3)
        \* residueN is assigned only inside its sequence and read only there
        residue1 == IF in1 THEN seq1[seq1Loc + 1] ELSE gapChar
        residue2 == IF in2 THEN seq2[seq2Loc + 1] ELSE gapChar
        residue3 == IF in3 THEN seq3[seq3Loc + 1] ELSE gapChar
        b1 == [b EXCEPT !.vertices =
                  Append(@, <<tV, VertexLabel(seq1Loc, seq2Loc, seq3Loc)>>)]
        calls ==
            IF in1 /\ in2 /\ in3
            THEN << <<TRUE, residue1, gapChar, gapChar>>,
                    <<TRUE, gapChar, residue2, gapChar>>,
                    <<TRUE, gapChar, gapChar, residue3>>,
                    <<TRUE, residue1, residue2, gapChar>>,
                    <<TRUE, gapChar, residue2, residue3>>,
                    <<TRUE, residue1, gapChar, residue3>>,
                    <<TRUE, residue1, residue2, residue3>> >>
            ELSE IF seq1Loc = Len(seq1)
            THEN << <<in2, gapChar, residue2, gapChar>>,
                    <<in3, gapChar, gapChar, residue3>>,
                    <<in2 /\ in3, gapChar, residue2, residue3>> >>
            ELSE IF seq2Loc = Len(seq2)
            THEN << <<in1, residue1, gapChar, gapChar>>,
                    <<in3, gapChar, gapChar, residue3>>,
                    <<in1 /\ in3, residue1, gapChar, residue3>> >>
            ELSE IF seq3Loc = Len(seq3)
            THEN << <<in1, residue1, gapChar, gapChar>>,
                    <<in2, gapChar, residue2, gapChar>>,
                    <<in1 /\ in2, residue1, residue2, gapChar>> >>
            ELSE <<>>
    IN  IF b.thrown THEN b ELSE addEdges(b1, calls, seq1Loc, seq2Loc, seq3Loc)

RECURSIVE loopSeq3_short(_, _, _, _, _, _, _)
\* the loop ends one position early
loopSeq3_short(b, seq1, seq2, seq3, seq1Loc, seq2Loc, seq3Loc) ==
    IF seq3Loc >= Len(seq3) THEN b
    ELSE LET b1 == loopBody(b, seq1, seq2, seq3, seq1Loc, seq2Loc, seq3Loc)
         IN  IF b1.thrown THEN b1
             ELSE loopSeq3_short(b1, seq1, seq2, seq3, seq1Loc, seq2Loc, seq3Loc + 1)

RECURSIVE loopSeq3(_, _, _, _, _, _, _)
\* for (seq3Loc = 0; seq3Loc <= seq3Length; seq3Loc++)
loopSeq3(b, seq1, seq2, seq3, seq1Loc, seq2Loc, seq3Loc) ==
    IF seq3Loc > Len(seq3) THEN b
    ELSE LET b1 == loopBody(b, seq1, seq2, seq3, seq1Loc, seq2Loc, seq3Loc)
         IN  IF b1.thrown THEN b1
             ELSE loopSeq3(b1, seq1, seq2, seq3, seq1Loc, seq2Loc, seq3Loc + 1)

RECURSIVE loopSeq2(_, _, _, _, _, _)
loopSeq2(b, seq1, seq2, seq3, seq1Loc, seq2Loc) ==
    IF seq2Loc > Len(seq2) THEN b
    ELSE LET b1 == loopSeq3(b, seq1, seq2, seq3, seq1Loc, seq2Loc, 0)
         IN  IF b1.thrown THEN b1
             ELSE loopSeq2(b1, seq1, seq2, seq3, seq1Loc, seq2Loc + 1)

RECURSIVE loopSeq1(_, _, _, _, _)
loopSeq1(b, seq1, seq2, seq3, seq1Loc) ==
    IF seq1Loc > Len(seq1) THEN b
    ELSE LET b1 == loopSeq2(b, seq1, seq2, seq3, seq1Loc, 0)
         IN  IF b1.thrown THEN b1
             ELSE loopSeq1(b1, seq1, seq2, seq3, seq1Loc + 1)

\* the streams when the loops end; the file is vertices followed by edges
buildGraphFile(seq1, seq2, seq3) ==
    loopSeq1([vertices |-> <<>>, edges |-> <<>>, thrown |-> FALSE],
             seq1, seq2, seq3, 0)

(***************************************************************************)
(* A graph description written by hand: vertex lines first, each label     *)
(* different, at most one START and one END, then edge lines between       *)
(* declared vertices.                                                      *)
(***************************************************************************)
EdgeLabels == {<<"A", "B", "-">>, <<"C", "D", "-">>}

Weights == {-1, 2}

VertexName(n) == <<"v">> \o FormatNat(n)

LinesOf(file, kind) == {n \in 1..Len(file) : file[n][1] = kind}

Marked(file, mark) ==
    \E n \in LinesOf(file, tV) : Len(file[n]) > 2 /\ file[n][3] = mark

\* the driver before it has built anything
InitDriver ==
    /\ fasta = <<>>
    /\ graphFile = <<>>
    /\ pc = "file"
    /\ vertices = EmptyGraph.vertices
    /\ verticeMap = EmptyGraph.verticeMap
    /\ edgeHeap = EmptyGraph.edgeHeap
    /\ edges = EmptyGraph.edges
    /\ startNode = EmptyGraph.startNode
    /\ endNode = EmptyGraph.endNode
    /\ highestWeightNode = EmptyGraph.highestWeightNode
    /\ edgeWeights = EmptyGraph.edgeWeights
    /\ edgeFrequencies = EmptyGraph.edgeFrequencies
    /\ runs = 0
    /\ report = <<>>

Init ==
    /\ InitDriver
    /\ residues = <<>>
    /\ score = <<>>

WriteVertexLine ==
    /\ pc = "file"
    /\ fasta = <<>>
    /\ LinesOf(graphFile, tE) = {}
    /\ Len(graphFile) < MaxVertices
    /\ \E mark \in {<<>>, tSTART, tEND} :
          /\ mark # <<>> => ~Marked(graphFile, mark)
          /\ graphFile' = Append(graphFile,
                 <<tV, VertexName(Len(graphFile) + 1)>>
                 \o IF mark = <<>> THEN <<>> ELSE <<mark>>)
    /\ UNCHANGED <<fasta, pc, graphVars, runs, report, scoreVars>>

WriteEdgeLine ==
    /\ pc = "file"
    /\ fasta = <<>>
    /\ Cardinality(LinesOf(graphFile, tE)) < MaxEdges
    /\ \E label \in EdgeLabels, s, e \in LinesOf(graphFile, tV), w \in Weights :
          graphFile' = Append(graphFile,
              <<tE, label, graphFile[s][2], graphFile[e][2], FormatInt(w)>>)
    /\ UNCHANGED <<fasta, pc, graphVars, runs, report, scoreVars>>

(***************************************************************************)
(* The engine's operations.                                                *)
(***************************************************************************)
SetGraph(g) ==
    /\ vertices' = g.vertices
    /\ verticeMap' = g.verticeMap
    /\ edgeHeap' = g.edgeHeap
    /\ edges' = g.edges
    /\ startNode' = g.startNode
    /\ endNode' = g.endNode
    /\ highestWeightNode' = g.highestWeightNode
    /\ edgeWeights' = g.edgeWeights
    /\ edgeFrequencies' = g.edgeFrequencies

\* new WDAGraph(graphFileName)
Construct ==
    /\ pc = "file"
    /\ \E incrementKept \in BOOLEAN :
          SetGraph(buildGraph(EmptyGraph, graphFile, incrementKept))
    /\ pc' = "ready"
    /\ UNCHANGED <<fasta, graphFile, runs, report, scoreVars>>

\* aGraph->findHighestWeightPath()
FindHighestWeightPath ==
    /\ pc = "ready"
    /\ runs < MaxRuns
    /\ SetGraph(findHighestWeightPath(Graph))
    /\ runs' = runs + 1
    /\ UNCHANGED <<fasta, graphFile, pc, report, scoreVars>>

\* aGraph->resultString(), called after findHighestWeightPath has run; the call
\* does not return when the back pointers from highestWeightNode form a cycle
ResultString ==
    /\ pc = "ready"
    /\ runs > 0
    /\ IF walkEnds(Graph)
       THEN pc' = "reported" /\ report' = resultString(Graph)
       ELSE pc' = "hung" /\ report' = report
    /\ UNCHANGED <<fasta, graphFile, graphVars, runs, scoreVars>>

(***************************************************************************)
(* The driver's use of the builder.                                        *)
(***************************************************************************)
\* The sequences of a fasta file are residues of the alphabet; the file is not
\* checked, so a sequence holding the gap character or a character outside the
\* alphabet can reach the builder too.
SeqChars == {"A", "C"}

Sequences ==
    UNION {[1..n -> SeqChars] : n \in 0..MaxSeqLen} \cup {<<gapChar>>, <<"X">>}

ResiduesOnly(seq) == \A n \in 1..Len(seq) : seq[n] \in DOMAIN residueMap

\* builder.buildGraphFile(fastaFile1, fastaFile2, fastaFile3, graphFileName);
\* an exception of the scoring lookup is not caught and ends the program
BuildGraphFile ==
    /\ pc = "file"
    /\ fasta = <<>>
    /\ graphFile = <<>>
    /\ \E seq1, seq2, seq3 \in Sequences :
          LET b == buildGraphFile(seq1, seq2, seq3)
          IN  /\ fasta' = <<seq1, seq2, seq3>>
              /\ IF b.thrown
                 THEN pc' = "aborted" /\ graphFile' = graphFile
                 ELSE pc' = pc /\ graphFile' = b.vertices \o b.edges
    /\ UNCHANGED <<graphVars, runs, report, scoreVars>>

\* the insertion of START and END that the builder has, disabled: START on the
\* line of 0,0,0 and END on the line of n1,n2,n3, here made in the built file
MarkStartEnd ==
    /\ pc = "file"
    /\ fasta # <<>>
    /\ ~Marked(graphFile, tSTART)
    /\ LET first == VertexLabel(0, 0, 0)
           last == VertexLabel(Len(fasta[1]), Len(fasta[2]), Len(fasta[3]))
       IN  graphFile' =
               [n \in 1..Len(graphFile) |->
                   IF graphFile[n][1] # tV THEN graphFile[n]
                   ELSE graphFile[n]
                        \o (IF graphFile[n][2] = first THEN <<tSTART>> ELSE <<>>)
                        \o (IF graphFile[n][2] = last THEN <<tEND>> ELSE <<>>)]
    /\ UNCHANGED <<fasta, pc, graphVars, runs, report, scoreVars>>

NextBuild ==
    \/ BuildGraphFile
    \/ MarkStartEnd
    \/ Construct
    \/ FindHighestWeightPath
    \/ ResultString

SpecBuild == Init /\ [][NextBuild]_vars

Next ==
    \/ WriteVertexLine
    \/ WriteEdgeLine
    \/ Construct
    \/ FindHighestWeightPath
    \/ ResultString

Spec == Init /\ [][Next]_vars

(***************************************************************************)
(* Direct calls of the methods of Blosum62, which are static: one call on  *)
(* three characters, each a residue of the alphabet, the gap character or  *)
(* a character that is neither.                                            *)
(***************************************************************************)
Alphabet == DOMAIN residueMap

Symbols == Alphabet \cup {gapChar, "X"}

InitScore ==
    /\ InitDriver
    /\ residues \in [1..3 -> Symbols]
    /\ score = <<>>

\* the outcome of a call: std::out_of_range thrown, or the value returned
Outcome(method, thrown, value) ==
    [method |-> method, thrown |-> thrown, value |-> IF thrown THEN 0 ELSE value]

\* Blosum62::getScore(residue1, residue2)
GetScore ==
    /\ score = <<>>
    /\ score' = Outcome("getScore",
                        getScoreThrows(residues[1], residues[2]),
                        getScore(residues[1], residues[2]))
    /\ UNCHANGED <<fasta, graphFile, pc, graphVars, runs, report, residues>>

\* Blosum62::gapCost()
GapCost ==
    /\ score = <<>>
    /\ score' = Outcome("gapCost", FALSE, gapCost)
    /\ UNCHANGED <<fasta, graphFile, pc, graphVars, runs, report, residues>>

\* Blosum62::sumOfPairsWeight(residue1, residue2, residue3)
SumOfPairsWeight ==
    /\ score = <<>>
    /\ score' = Outcome("sumOfPairsWeight",
                        sumOfPairsWeightThrows(residues[1], residues[2], residues[3]),
                        sumOfPairsWeight(residues[1], residues[2], residues[3]))
    /\ UNCHANGED <<fasta, graphFile, pc, graphVars, runs, report, residues>>

NextScore ==
    \/ GetScore
    \/ GapCost
    \/ SumOfPairsWeight

SpecScore == InitScore /\ [][NextScore]_vars

(***************************************************************************)
(* Notions the properties are stated in.                                   *)
(***************************************************************************)

\* findHighestWeightPath has run on the loaded graph
Ran == pc \in {"ready", "reported", "hung"} /\ runs >= 1

Unconstrained == startNode = NULL /\ endNode = NULL

\* the vertex order is topological: every edge starts at a vertex enumerated
\* before the vertex it ends at
Topological == \A e \in 1..Len(edgeHeap) : edgeHeap[e].start < edgeHeap[e].end

\* the directed paths of the loaded graph as sequences of edges, the empty path
\* included; in a topological order no path uses an edge twice
Chains ==
    {c \in UNION {[1..n -> 1..Len(edgeHeap)] : n \in 0..Len(edgeHeap)} :
        \A n \in 1..(Len(c) - 1) : edgeHeap[c[n]].end = edgeHeap[c[n + 1]].start}

RECURSIVE ChainWeight(_)
ChainWeight(c) ==
    IF c = <<>> THEN 0 ELSE edgeHeap[Head(c)].weight + ChainWeight(Tail(c))

MaxWeightOf(chains) ==
    CHOOSE w \in {ChainWeight(c) : c \in chains} :
        \A c \in chains : ChainWeight(c) <= w

Score == vertices[highestWeightNode].weight

ReportOf(type) ==
    LET n == CHOOSE m \in 1..Len(report) : report[m][1] = type IN report[n][2]

Reports(type) == \E m \in 1..Len(report) : report[m][1] = type

(***************************************************************************)
(* C1.  On a loaded graph with no START and no END vertex whose vertex     *)
(* order is topological, the score after findHighestWeightPath, the weight *)
(* of the best terminal vertex, is the maximum over all directed paths,    *)
(* the empty path of weight 0 included, of the sum of the edge weights;    *)
(* resultString reports that number.                                       *)
(***************************************************************************)
C1_ScoreIsMaxPathWeight ==
    (Ran /\ Unconstrained /\ Topological /\ vertices # <<>>) =>
        /\ highestWeightNode # NULL
        /\ Score = MaxWeightOf(Chains)
        /\ pc = "reported" => ReportOf("score") = FormatInt(MaxWeightOf(Chains))

\* a reported score of 4: a path of two edges of weight 2
C1_Witness ==
    /\ Ran /\ Unconstrained /\ Topological
    /\ pc = "reported"
    /\ Len(edgeHeap) = 2
    /\ Score = 4

RECURSIVE WinningPathTo(_)
\* the edges of the winning path to vertex v, from its first edge to its last
WinningPathTo(v) ==
    IF vertices[v].edgeForHWPath = NULL THEN <<>>
    ELSE Append(WinningPathTo(edgeHeap[vertices[v].edgeForHWPath].start),
                vertices[v].edgeForHWPath)

WinningPath == WinningPathTo(highestWeightNode)

WinningLabels == [n \in 1..Len(WinningPath) |-> edgeHeap[WinningPath[n]].label]

RECURSIVE TextLines(_, _)
\* the lines of a text: its longest stretches without a new line character;
\* line is the stretch read so far
TextLines(text, line) ==
    IF text = <<>> THEN (IF line = <<>> THEN <<>> ELSE <<line>>)
    ELSE IF Head(text) = NewLine
    THEN (IF line = <<>> THEN <<>> ELSE <<line>>) \o TextLines(Tail(text), <<>>)
    ELSE TextLines(Tail(text), Append(line, Head(text)))

\* a winning path was found and the walk along its back pointers ends
PathFound == Ran /\ highestWeightNode # NULL /\ walkEnds(Graph)

(***************************************************************************)
(* C2.  getPath lists the labels of the edges of the winning path from the *)
(* start vertex of the path to the best terminal vertex, each label        *)
(* character for character the label of its edge.                          *)
(***************************************************************************)
C2_PathListsLabels ==
    PathFound => TextLines(getPath(Graph), <<>>) = WinningLabels

(***************************************************************************)
(* Notions for the graphs of the builder.                                  *)
(***************************************************************************)

\* the builder has written the file of the three sequences
Built == fasta # <<>> /\ pc # "aborted"

n1 == Len(fasta[1])
n2 == Len(fasta[2])
n3 == Len(fasta[3])

\* the three sequences hold residues of the alphabet only, no gap character
ResidueInput ==
    ResiduesOnly(fasta[1]) /\ ResiduesOnly(fasta[2]) /\ ResiduesOnly(fasta[3])

\* the text i,j,k for indices of one digit
TripleText(i, j, k) == <<Digits[i + 1], ",", Digits[j + 1], ",", Digits[k + 1]>>

\* START and END have been put on the lines of 0,0,0 and n1,n2,n3
StartEndMarked == Built /\ Marked(graphFile, tSTART)

\* the score of the unconstrained search on the graph of the three sequences
UnmarkedScore ==
    LET b == buildGraphFile(fasta[1], fasta[2], fasta[3])
        g == findHighestWeightPath(buildGraph(EmptyGraph, b.vertices \o b.edges, TRUE))
    IN  g.vertices[g.highestWeightNode].weight

\* C3 as stated, for any three sequences, also ones that hold the gap
\* character: the reported path begins at 0,0,0 and ends at n1,n2,n3
C3_AnySequences ==
    (StartEndMarked /\ Ran) =>
        /\ highestWeightNode # NULL
        /\ walkEnds(Graph)
        /\ getPathStartNodeLabel(Graph) = TripleText(0, 0, 0)
        /\ vertices[highestWeightNode].label = TripleText(n1, n2, n3)

(***************************************************************************)
(* C3.  For the edit graph of three sequences of residues with START on    *)
(* vertex 0,0,0 and END on vertex n1,n2,n3, the reported path begins at    *)
(* 0,0,0 and ends at n1,n2,n3, also when the unconstrained search on the   *)
(* same graph reports a higher score.                                      *)
(***************************************************************************)
C3_PathFromStartToEnd ==
    (StartEndMarked /\ ResidueInput /\ Ran) =>
        /\ highestWeightNode # NULL
        /\ walkEnds(Graph)
        /\ getPathStartNodeLabel(Graph) = TripleText(0, 0, 0)
        /\ vertices[highestWeightNode].label = TripleText(n1, n2, n3)
        /\ pc = "reported" =>
              /\ ReportOf("beginning_vertex") = TripleText(0, 0, 0)
              /\ ReportOf("end_vertex") = TripleText(n1, n2, n3)

\* the constrained path is reported although the unconstrained score is higher
C3_Witness ==
    /\ StartEndMarked /\ ResidueInput
    /\ pc = "reported"
    /\ n1 > 0 /\ n2 > 0 /\ n3 > 0
    /\ ReportOf("beginning_vertex") = TripleText(0, 0, 0)
    /\ ReportOf("end_vertex") = TripleText(n1, n2, n3)
    /\ UnmarkedScore > Score

\* a directed path leads from vertex a to vertex b, the empty path for a = b
Reaches(a, b) ==
    \/ a = b
    \/ \E c \in Chains :
          /\ c # <<>>
          /\ edgeHeap[c[1]].start = a
          /\ edgeHeap[c[Len(c)]].end = b

\* START and END are designated and no path leads from START to END
StartEndApart ==
    /\ startNode # NULL
    /\ endNode # NULL
    /\ ~Reaches(startNode, endNode)

(***************************************************************************)
(* C4.  With START and END designated and no path from START to END, the   *)
(* run ends without a best terminal vertex and resultString reports        *)
(* 'No Path Found!' and no score; a vertex whose weight is still the       *)
(* unreached sentinel INT_MIN is never the best terminal vertex.  Stated   *)
(* for graphs in topological vertex order.                                 *)
(***************************************************************************)
C4_NoPathBetweenStartAndEnd ==
    /\ (Ran /\ Topological /\ StartEndApart) =>
          /\ highestWeightNode = NULL
          /\ pc = "reported" =>
                (ReportOf("path") = NoPathFound /\ ~Reports("score"))
    /\ (Ran /\ Topological /\ highestWeightNode # NULL) => Score # INT_MIN

(***************************************************************************)
(* C5.  With END designated the best terminal vertex after a run is the    *)
(* END vertex or none, wherever START is and whether or not it is set.     *)
(* Stated for graphs in topological vertex order.                          *)
(***************************************************************************)
C5_OnlyEndIsRecorded ==
    (Ran /\ Topological /\ endNode # NULL) =>
        highestWeightNode \in {NULL, endNode}


(***************************************************************************)
(* C6.  For a graph description without lines loading succeeds and leaves  *)
(* an empty graph, findHighestWeightPath records no best terminal vertex,  *)
(* and resultString returns: the two empty maps and 'No Path Found!'.      *)
(***************************************************************************)
C6_EmptyDescription ==
    (fasta = <<>> /\ graphFile = <<>> /\ pc # "file") =>
        /\ vertices = <<>>
        /\ edgeHeap = <<>>
        /\ highestWeightNode = NULL
        /\ pc \in {"ready", "reported"}
        /\ pc = "reported" =>
              report = << <<"edge_weights", <<>> >>,
                          <<"edge_histogram", <<>> >>,
                          <<"path", NoPathFound>> >>

\* the result of the empty description after a run
C6_Witness ==
    fasta = <<>> /\ graphFile = <<>> /\ pc = "reported" /\ runs >= 1

\* the configuration of the loaded graph
Configuration == <<startNode # NULL, endNode # NULL>>

\* C7 as stated, for any loaded graph, also one whose vertex order is not
\* topological: a further run leaves the best terminal vertex and its score
C7_AnyLoadedGraph ==
    [][(pc = "ready" /\ runs >= 1 /\ runs' = runs + 1) =>
          /\ highestWeightNode' = highestWeightNode
          /\ highestWeightNode # NULL => Score' = Score]_vars

(***************************************************************************)
(* C7.  A run of findHighestWeightPath on a graph that has been run before *)
(* leaves the best terminal vertex, its score and the reconstructed path   *)
(* as they were, whether START, END, both or none are designated, when the *)
(* vertex order of the graph is topological.                               *)
(***************************************************************************)
C7_SecondRunSame ==
    [][(pc = "ready" /\ runs >= 1 /\ runs' = runs + 1 /\ Topological) =>
          /\ highestWeightNode' = highestWeightNode
          /\ highestWeightNode # NULL =>
                /\ Score' = Score
                /\ getPath(Graph)' = getPath(Graph)
                /\ getPathStartNodeLabel(Graph)' = getPathStartNodeLabel(Graph)]_vars

\* after the second run: START and END designated, a path of two edges found
C7_Witness ==
    /\ runs = 2 /\ Topological
    /\ Configuration = <<TRUE, TRUE>>
    /\ highestWeightNode = endNode
    /\ Len(WinningPath) = 2

\* the description without its line n
WithoutLine(file, n) == SubSeq(file, 1, n - 1) \o SubSeq(file, n + 1, Len(file))

\* the line of the description that edge e was read from
LineOfEdge(e) == Len(vertices) + e

\* the score of a run on the graph loaded from the description
ScoreOfFile(file) ==
    LET g == findHighestWeightPath(buildGraph(EmptyGraph, file, TRUE))
    IN  g.vertices[g.highestWeightNode].weight

OnWinningPath(e) == \E n \in 1..Len(WinningPath) : WinningPath[n] = e

(***************************************************************************)
(* C8.  On a graph without START and END in topological vertex order, for  *)
(* every edge that is not on the reconstructed winning path, the score of  *)
(* the graph without that edge is the score of the graph.                  *)
(***************************************************************************)
C8_OffPathEdgeNotCritical ==
    (Ran /\ Unconstrained /\ Topological /\ vertices # <<>>) =>
        \A e \in 1..Len(edgeHeap) :
            ~OnWinningPath(e) =>
                ScoreOfFile(WithoutLine(graphFile, LineOfEdge(e))) = Score

\* a winning path of one edge and an edge of positive weight that is not on it
C8_Witness ==
    /\ Ran /\ Unconstrained /\ Topological
    /\ Len(edgeHeap) = 2
    /\ Len(WinningPath) = 1
    /\ \E e \in 1..2 : ~OnWinningPath(e) /\ edgeHeap[e].weight > 0

\* the vertex lines and the edge lines of the built file
VertexLines == LinesOf(graphFile, tV)
EdgeLines == LinesOf(graphFile, tE)

\* the label of a vertex line, whether or not START or END follow it
LabelOfLine(n) == graphFile[n][2]

(***************************************************************************)
(* C9.  For sequences of lengths n1, n2, n3 buildGraphFile writes          *)
(* (n1+1)(n2+1)(n3+1) vertex lines: for each i in 0..n1, j in 0..n2 and    *)
(* k in 0..n3 exactly one line, labelled i,j,k.                            *)
(***************************************************************************)
C9_VertexLines ==
    Built =>
        /\ Cardinality(VertexLines) = (n1 + 1) * (n2 + 1) * (n3 + 1)
        /\ \A i \in 0..n1, j \in 0..n2, k \in 0..n3 :
              Cardinality({n \in VertexLines : LabelOfLine(n) = TripleText(i, j, k)}) = 1
        /\ \A m, n \in VertexLines : m # n => LabelOfLine(m) # LabelOfLine(n)

\* lengths 2, 0 and 1: six vertex lines
C9_Witness ==
    /\ Built
    /\ n1 = 2 /\ n2 = 0 /\ n3 = 1
    /\ Cardinality(VertexLines) = 6

\* the edge line goes from i,j,k to a vertex whose indices are each the same or
\* one more, and not all the same
Advances(line) ==
    \E i \in 0..n1, j \in 0..n2, k \in 0..n3 :
        \E di, dj, dk \in {0, 1} :
            /\ line[3] = TripleText(i, j, k)
            /\ line[4] = TripleText(i + di, j + dj, k + dk)
            /\ di + dj + dk > 0

(***************************************************************************)
(* C10.  For sequences of residues, none the gap character, every edge     *)
(* line that buildGraphFile writes goes from i,j,k to i',j',k' with each   *)
(* index the same or one more and not all three the same.                  *)
(***************************************************************************)
C10_EdgesAdvance ==
    (Built /\ ResidueInput) => \A n \in EdgeLines : Advances(graphFile[n])

\* three sequences of two residues: the seven edges of an inner vertex
C10_Witness ==
    /\ Built /\ ResidueInput
    /\ n1 = 2 /\ n2 = 2 /\ n3 = 2
    /\ Cardinality({n \in EdgeLines : graphFile[n][3] = TripleText(0, 0, 0)}) = 7

\* the position that the nested loops give the vertex line of i,j,k
NestedPosition(i, j, k) == i * (n2 + 1) * (n3 + 1) + j * (n3 + 1) + k + 1

\* the vertex lines are in nested ascending order, i outermost and k innermost
NestedOrder ==
    \A i \in 0..n1, j \in 0..n2, k \in 0..n3 :
        /\ NestedPosition(i, j, k) \in VertexLines
        /\ LabelOfLine(NestedPosition(i, j, k)) = TripleText(i, j, k)

\* the vertex line of the start of edge line e precedes the one of its end
StartLinePrecedesEnd(e) ==
    \E m, n \in VertexLines :
        /\ LabelOfLine(m) = graphFile[e][3]
        /\ LabelOfLine(n) = graphFile[e][4]
        /\ m < n

\* C11 as stated, for the output of any build, also of sequences that hold the
\* gap character: every edge starts on an earlier vertex line than it ends on
C11_AnyOutput ==
    Built => (NestedOrder /\ \A e \in EdgeLines : StartLinePrecedesEnd(e))

(***************************************************************************)
(* C11.  In the file built for sequences of residues the vertex lines are  *)
(* in nested ascending order, i outermost and k innermost, and that order  *)
(* is topological: the vertex line of the start of every edge precedes the *)
(* vertex line of its end.                                                 *)
(***************************************************************************)
C11_VertexOrderTopological ==
    (Built /\ ResidueInput) =>
        (NestedOrder /\ \A e \in EdgeLines : StartLinePrecedesEnd(e))

\* lengths 2, 1 and 2 with the edge from 1,0,1 to 2,1,2
C11_Witness ==
    /\ Built /\ ResidueInput
    /\ n1 = 2 /\ n2 = 1 /\ n3 = 2
    /\ \E e \in EdgeLines :
          /\ graphFile[e][3] = TripleText(1, 0, 1)
          /\ graphFile[e][4] = TripleText(2, 1, 2)
          /\ StartLinePrecedesEnd(e)

\* the edge lines from i,j,k to i+di,j+dj,k+dk
EdgesBetween(i, j, k, di, dj, dk) ==
    {e \in EdgeLines :
        /\ graphFile[e][3] = TripleText(i, j, k)
        /\ graphFile[e][4] = TripleText(i + di, j + dj, k + dk)}

\* between every two vertices in range, the second reached from the first by
\* advancing some and at least one of the indices by one, there is one edge line
EdgeSetComplete ==
    \A i \in 0..n1, j \in 0..n2, k \in 0..n3 :
        \A di, dj, dk \in {0, 1} :
            (di + dj + dk > 0 /\ i + di <= n1 /\ j + dj <= n2 /\ k + dk <= n3) =>
                Cardinality(EdgesBetween(i, j, k, di, dj, dk)) = 1

\* C12 as stated, for the output of any build, also of sequences that hold the
\* gap character
C12_AnyOutput == Built => EdgeSetComplete

(***************************************************************************)
(* C12.  The edge lines built for sequences of residues are complete and   *)
(* without duplicates: for all vertices i,j,k and i',j',k' in range with   *)
(* each primed index the same or one more and at least one different,      *)
(* there is exactly one edge line from i,j,k to i',j',k'.                  *)
(***************************************************************************)
C12_EdgeSetComplete == (Built /\ ResidueInput) => EdgeSetComplete

\* lengths 2, 2 and 1: past the ends of the first two sequences the one edge
\* from 2,2,0 to 2,2,1
C12_Witness ==
    /\ Built /\ ResidueInput
    /\ n1 = 2 /\ n2 = 2 /\ n3 = 1
    /\ Cardinality(EdgesBetween(2, 2, 0, 0, 0, 1)) = 1
    /\ Cardinality(EdgesBetween(0, 0, 0, 1, 1, 1)) = 1

\* the edge lines that start at i,j,k
EdgesFrom(i, j, k) == {e \in EdgeLines : graphFile[e][3] = TripleText(i, j, k)}

\* seven edge lines start at i,j,k, one for each non-empty set of sequences,
\* the set of the sequences whose index the edge advances by one
SevenEdgesFrom(i, j, k) ==
    /\ Cardinality(EdgesFrom(i, j, k)) = 7
    /\ \A di, dj, dk \in {0, 1} :
          di + dj + dk > 0 => Cardinality(EdgesBetween(i, j, k, di, dj, dk)) = 1

InnerVerticesHaveSeven ==
    \A i \in 0..(n1 - 1), j \in 0..(n2 - 1), k \in 0..(n3 - 1) : SevenEdgesFrom(i, j, k)

\* C13 as stated, for any three sequences, also ones that hold the gap
\* character
C13_AnySequences == Built => InnerVerticesHaveSeven

(***************************************************************************)
(* C13.  For sequences of residues, at every vertex i,j,k with i < n1,     *)
(* j < n2 and k < n3 the builder writes exactly seven outgoing edges, one  *)
(* for each non-empty set of the three sequences, the set of the sequences *)
(* whose index advances by one.                                            *)
(***************************************************************************)
C13_SevenEdges == (Built /\ ResidueInput) => InnerVerticesHaveSeven

\* three sequences of two residues: the seven edges of the inner vertex 1,1,1
C13_Witness ==
    /\ Built /\ ResidueInput
    /\ n1 = 2 /\ n2 = 2 /\ n3 = 2
    /\ SevenEdgesFrom(1, 1, 1)

\* at i,j,k the sequences of the set ended have no residue left, the others have
ExactlyEnded(i, j, k, ended) ==
    /\ (i = n1) = (1 \in ended)
    /\ (j = n2) = (2 \in ended)
    /\ (k = n3) = (3 \in ended)

\* three edge lines start at i,j,k: for each of the two sequences q and r its
\* advance alone, and their joint advance; d[p] is the advance of index p
ThreeEdgesFrom(i, j, k, q, r) ==
    /\ Cardinality(EdgesFrom(i, j, k)) = 3
    /\ \A d \in {[p \in 1..3 |-> IF p = q THEN 1 ELSE 0],
                 [p \in 1..3 |-> IF p = r THEN 1 ELSE 0],
                 [p \in 1..3 |-> IF p \in {q, r} THEN 1 ELSE 0]} :
          Cardinality(EdgesBetween(i, j, k, d[1], d[2], d[3])) = 1

OneEndedHaveThree ==
    \A i \in 0..n1, j \in 0..n2, k \in 0..n3 :
        /\ ExactlyEnded(i, j, k, {1}) => ThreeEdgesFrom(i, j, k, 2, 3)
        /\ ExactlyEnded(i, j, k, {2}) => ThreeEdgesFrom(i, j, k, 1, 3)
        /\ ExactlyEnded(i, j, k, {3}) => ThreeEdgesFrom(i, j, k, 1, 2)

\* C14 as stated, for any three sequences, also ones that hold the gap
\* character
C14_AnySequences == Built => OneEndedHaveThree

(***************************************************************************)
(* C14.  For sequences of residues, at every vertex where exactly one      *)
(* sequence is exhausted the builder writes exactly three outgoing edges:  *)
(* the advance of each of the other two sequences alone and their joint    *)
(* advance; none advances the exhausted sequence.  The same for each of    *)
(* the three sequences being the exhausted one.                            *)
(***************************************************************************)
C14_ThreeEdges == (Built /\ ResidueInput) => OneEndedHaveThree

\* three sequences of two residues: vertices where the first, the second and
\* the third sequence alone is exhausted
C14_Witness ==
    /\ Built /\ ResidueInput
    /\ n1 = 2 /\ n2 = 2 /\ n3 = 2
    /\ ThreeEdgesFrom(2, 0, 1, 2, 3)
    /\ ThreeEdgesFrom(1, 2, 0, 1, 3)
    /\ ThreeEdgesFrom(0, 1, 2, 1, 2)

\* the number of sequences that have no residue left at i,j,k
Exhausted(i, j, k) ==
    (IF i = n1 THEN 1 ELSE 0) + (IF j = n2 THEN 1 ELSE 0) + (IF k = n3 THEN 1 ELSE 0)

\* C15 as stated: no edge line starts at a vertex where two or three
\* sequences are exhausted
C15_NoEdgesPastTwoEnds ==
    (Built /\ ResidueInput) =>
        \A i \in 0..n1, j \in 0..n2, k \in 0..n3 :
            Exhausted(i, j, k) >= 2 => EdgesFrom(i, j, k) = {}

(***************************************************************************)
(* C15.  For sequences of residues, at the vertex where all three          *)
(* sequences are exhausted the builder writes no outgoing edge, and at a   *)
(* vertex where exactly two are exhausted it writes exactly one: the       *)
(* advance of the sequence that has residues left.                         *)
(***************************************************************************)
C15_EdgesPastTwoEnds ==
    (Built /\ ResidueInput) =>
        \A i \in 0..n1, j \in 0..n2, k \in 0..n3 :
            /\ Exhausted(i, j, k) = 3 => EdgesFrom(i, j, k) = {}
            /\ Exhausted(i, j, k) = 2 =>
                  /\ Cardinality(EdgesFrom(i, j, k)) = 1
                  /\ Cardinality(EdgesBetween(i, j, k,
                                              IF i = n1 THEN 0 ELSE 1,
                                              IF j = n2 THEN 0 ELSE 1,
                                              IF k = n3 THEN 0 ELSE 1)) = 1

\* lengths 1, 2 and 1: one edge from 1,2,0, to 1,2,1, and none from 1,2,1
C15_Witness ==
    /\ Built /\ ResidueInput
    /\ n1 = 1 /\ n2 = 2 /\ n3 = 1
    /\ EdgesFrom(1, 2, 0) = EdgesBetween(1, 2, 0, 0, 0, 1)
    /\ Cardinality(EdgesFrom(1, 2, 0)) = 1
    /\ EdgesFrom(1, 2, 1) = {}

\* edge line e starts at i,j,k and advances index p by d[p]: position p of its
\* label is the residue of sequence p at the start index when d[p] is 1 and
\* the gap character when it is 0
LabelledBy(e, i, j, k, d) ==
    /\ i + d[1] <= n1 /\ j + d[2] <= n2 /\ k + d[3] <= n3
    /\ graphFile[e][3] = TripleText(i, j, k)
    /\ graphFile[e][4] = TripleText(i + d[1], j + d[2], k + d[3])
    /\ graphFile[e][2][1] = (IF d[1] = 1 THEN fasta[1][i + 1] ELSE "-")
    /\ graphFile[e][2][2] = (IF d[2] = 1 THEN fasta[2][j + 1] ELSE "-")
    /\ graphFile[e][2][3] = (IF d[3] = 1 THEN fasta[3][k + 1] ELSE "-")

\* the weight written on edge line e is the sum of the scores of the three
\* pairs of the characters of its label
WeightOfLabel(e) ==
    LET c == graphFile[e][2]
    IN  Atof(graphFile[e][5]) = getScore(c[1], c[2]) + getScore(c[2], c[3])
                                + getScore(c[1], c[3])

Called(method) == score # <<>> /\ score.method = method

\* the call returned the value
Returned(value) == ~score.thrown /\ score.value = value

(***************************************************************************)
(* C17.  For residues a and b of the alphabet getScore(a, b) returns what  *)
(* getScore(b, a) returns, and the table of 20 rows and 20 columns is      *)
(* symmetric.                                                              *)
(***************************************************************************)
C17_ScoreSymmetric ==
    /\ (Called("getScore") /\ residues[1] \in Alphabet /\ residues[2] \in Alphabet) =>
          Returned(getScore(residues[2], residues[1]))
    /\ Len(matrix) = 20
    /\ \A row, column \in 1..20 :
          Len(matrix[row]) = 20 /\ matrix[row][column] = matrix[column][row]

\* getScore of R and K, which differ, has returned 2
C17_Witness ==
    /\ Called("getScore")
    /\ residues[1] = "R" /\ residues[2] = "K"
    /\ Returned(2)

(***************************************************************************)
(* C18.  For every residue a of the alphabet getScore(a, '-') and          *)
(* getScore('-', a) return gapCost(), which is -6 whatever a is, and       *)
(* getScore('-', '-') returns 0.                                           *)
(***************************************************************************)
C18_GapScores ==
    /\ Called("gapCost") => Returned(-6)
    /\ Called("getScore") =>
          /\ (residues[1] \in Alphabet /\ residues[2] = "-") => Returned(gapCost)
          /\ (residues[1] = "-" /\ residues[2] \in Alphabet) => Returned(gapCost)
          /\ (residues[1] = "-" /\ residues[2] = "-") => Returned(0)

\* getScore of two gap characters has returned 0
C18_Witness ==
    /\ Called("getScore")
    /\ residues[1] = "-" /\ residues[2] = "-"
    /\ Returned(0)

\* the character is neither a residue of the alphabet nor the gap character
Invalid(c) == c \notin Alphabet /\ c # gapChar

(***************************************************************************)
(* C19.  A call of getScore or sumOfPairsWeight with an argument that is   *)
(* neither a residue of the alphabet nor the gap character throws and      *)
(* returns no score, whatever the other arguments are: a residue, another  *)
(* such character or the gap character.                                    *)
(***************************************************************************)
C19_InvalidSymbolThrows ==
    /\ (Called("getScore") /\ (Invalid(residues[1]) \/ Invalid(residues[2]))) =>
          score.thrown
    /\ (Called("sumOfPairsWeight") /\ \E p \in 1..3 : Invalid(residues[p])) =>
          score.thrown

\* the label of the edge has no gap character: the edge advances all sequences
AllAdvance(label) == \A p \in 1..Len(label) : label[p] # gapChar

\* the builder's file of AC, AC and AC, without START and END, has been run
RanOnACs ==
    /\ Built /\ Ran
    /\ fasta = << <<"A", "C">>, <<"A", "C">>, <<"A", "C">> >>
    /\ ~Marked(graphFile, tSTART) /\ ~Marked(graphFile, tEND)

(***************************************************************************)
(* C20.  For the sequences AC, AC and AC without START and END the winning *)
(* path runs from 0,0,0 to 2,2,2, every edge on it advances all three      *)
(* sequences, and the reported score is 3*score(A,A) + 3*score(C,C).       *)
(***************************************************************************)
C20_ThreeACs ==
    RanOnACs =>
        /\ highestWeightNode # NULL
        /\ walkEnds(Graph)
        /\ getPathStartNodeLabel(Graph) = TripleText(0, 0, 0)
        /\ vertices[highestWeightNode].label = TripleText(2, 2, 2)
        /\ WinningPath # <<>>
        /\ \A n \in 1..Len(WinningPath) : AllAdvance(edgeHeap[WinningPath[n]].label)
        /\ Score = 3 * getScore("A", "A") + 3 * getScore("C", "C")
        /\ pc = "reported" =>
              /\ ReportOf("score")
                     = FormatInt(3 * getScore("A", "A") + 3 * getScore("C", "C"))
              /\ ReportOf("beginning_vertex") = TripleText(0, 0, 0)
              /\ ReportOf("end_vertex") = TripleText(2, 2, 2)

\* the report of the score 39 over the edges AAA and CCC
C20_Witness ==
    /\ RanOnACs
    /\ pc = "reported"
    /\ ReportOf("score") = <<"3", "9">>
    /\ WinningLabels = << <<"A", "A", "A">>, <<"C", "C", "C">> >>

\* edge line e advances sequences 1 and 2 jointly: its label is ab- for
\* characters a and b that are not the gap character
JointAdvance12(e) ==
    /\ graphFile[e][2][1] # gapChar
    /\ graphFile[e][2][2] # gapChar
    /\ graphFile[e][2][3] = gapChar

\* C21 as stated: with the third sequence empty the weight of an edge ab- is
\* 2*score(a,b) + 2*gapCost()
C21_TwiceThePairScore ==
    (Built /\ n3 = 0) =>
        \A e \in EdgeLines :
            JointAdvance12(e) =>
                Atof(graphFile[e][5])
                    = 2 * getScore(graphFile[e][2][1], graphFile[e][2][2]) + 2 * gapCost

(***************************************************************************)
(* C21.  With the third sequence empty, an edge that advances sequences 1  *)
(* and 2 jointly over the residues a and b, label ab-, has the weight      *)
(* score(a,b) + 2*gapCost(): the pair a b once, each residue against the   *)
(* gap once.                                                               *)
(***************************************************************************)
C21_JointAdvanceWeight ==
    (Built /\ n3 = 0) =>
        \A e \in EdgeLines :
            JointAdvance12(e) =>
                Atof(graphFile[e][5])
                    = getScore(graphFile[e][2][1], graphFile[e][2][2]) + 2 * gapCost

\* the edge AA- of weight -8 = 4 - 12 in the file of A, A and the empty sequence
C21_Witness ==
    /\ Built /\ n3 = 0
    /\ \E e \in EdgeLines :
          /\ graphFile[e][2] = <<"A", "A", "-">>
          /\ Atof(graphFile[e][5]) = -8

\* the graph description has been loaded
Loaded == pc \in {"ready", "reported", "hung"}

\* the edge lines of the description that carry the label
LinesLabelled(label) == {n \in LinesOf(graphFile, tE) : graphFile[n][2] = label}

(***************************************************************************)
(* C22.  After loading a graph description the labels with a recorded      *)
(* frequency are the labels of its edge lines, and the frequency recorded  *)
(* for a label is the number of edge lines that carry it.                  *)
(***************************************************************************)
C22_FrequencyIsLineCount ==
    Loaded =>
        /\ DOMAIN edgeFrequencies = {graphFile[n][2] : n \in LinesOf(graphFile, tE)}
        /\ \A label \in DOMAIN edgeFrequencies :
              edgeFrequencies[label] = Cardinality(LinesLabelled(label))

\* the directed paths of at least one edge from vertex a to vertex b
ChainsBetween(a, b) ==
    {c \in Chains :
        /\ c # <<>>
        /\ edgeHeap[c[1]].start = a
        /\ edgeHeap[c[Len(c)]].end = b}

\* START is designated and the scan runs to the end of the vertex list: there
\* is no END, or END is enumerated before START and is passed over
StartConstrainedToTheEnd ==
    /\ startNode # NULL
    /\ endNode = NULL \/ endNode < startNode

(***************************************************************************)
(* C23.  Under a START constraint on a graph in topological vertex order,  *)
(* after a run that reaches the end of the vertex list: every vertex       *)
(* before START has the unreached weight INT_MIN and no edgeForHWPath;     *)
(* START has weight 0 and no edgeForHWPath; every vertex after START has a *)
(* reached weight exactly when a path leads from START to it, and then its *)
(* weight is the maximum weight of the paths from START to it.             *)
(***************************************************************************)
C23_StartConstrainedWeights ==
    (Ran /\ Topological /\ StartConstrainedToTheEnd) =>
        \A v \in 1..Len(vertices) :
            /\ v < startNode =>
                  (vertices[v].weight = INT_MIN /\ vertices[v].edgeForHWPath = NULL)
            /\ v = startNode =>
                  (vertices[v].weight = 0 /\ vertices[v].edgeForHWPath = NULL)
            /\ v > startNode =>
                  /\ (vertices[v].weight # INT_MIN) = (ChainsBetween(startNode, v) # {})
                  /\ ChainsBetween(startNode, v) # {} =>
                        vertices[v].weight = MaxWeightOf(ChainsBetween(startNode, v))

\* START on v2: v3 has the weight -1 of the edge from v2, not the weight 2 of
\* the edge from v1, which is before START
C23_Witness ==
    /\ Ran /\ Topological /\ StartConstrainedToTheEnd
    /\ startNode = 2
    /\ Len(vertices) = 3
    /\ vertices[1].weight = INT_MIN
    /\ vertices[3].weight = -1
    /\ \E e \in 1..Len(edgeHeap) :
          edgeHeap[e].start = 1 /\ edgeHeap[e].end = 3 /\ edgeHeap[e].weight = 2

\* the step is a run of findHighestWeightPath
RunStep == pc = "ready" /\ runs' = runs + 1

(***************************************************************************)
(* C24.  Under an END constraint the scan stops at the END vertex: a run   *)
(* of findHighestWeightPath leaves every vertex enumerated after END as it *)
(* was, its weight still INT_MIN and without edgeForHWPath, and it changes *)
(* no edge, no label, no adjacency list and neither START nor END.  Stated *)
(* for graphs in topological vertex order.                                 *)
(***************************************************************************)
C24_ScanStopsAtEnd ==
    [][(RunStep /\ Topological /\ endNode # NULL) =>
          /\ \A v \in (endNode + 1)..Len(vertices) :
                /\ vertices'[v] = vertices[v]
                /\ vertices'[v].weight = INT_MIN
                /\ vertices'[v].edgeForHWPath = NULL
          /\ edgeHeap' = edgeHeap
          /\ edges' = edges
          /\ verticeMap' = verticeMap
          /\ [v \in 1..Len(vertices) |-> vertices'[v].label]
                 = [v \in 1..Len(vertices) |-> vertices[v].label]
          /\ startNode' = startNode
          /\ endNode' = endNode]_vars

\* the vertices of maximal weight
MaximalVertices ==
    {v \in 1..Len(vertices) :
        \A u \in 1..Len(vertices) : vertices[u].weight <= vertices[v].weight}

\* the maximal weight is shared by vertices other than the first of them
SharedMaximum == \E u, v \in MaximalVertices : u < v

\* the best terminal vertex is the first enumerated vertex of maximal weight
FirstMaximalIsBest ==
    /\ highestWeightNode \in MaximalVertices
    /\ \A v \in MaximalVertices : highestWeightNode <= v

(***************************************************************************)
(* C25.  With no END vertex, after findHighestWeightPath on a graph with   *)
(* at least one vertex the best terminal vertex is the first enumerated    *)
(* one among the vertices of maximal weight: a later vertex of the same    *)
(* weight does not replace it.  Stated for every loaded graph and every    *)
(* run.                                                                    *)
(***************************************************************************)
C25_AnyRun ==
    (Ran /\ endNode = NULL /\ vertices # <<>>) => FirstMaximalIsBest

\* the same for the first run after loading, and for every run on a graph in
\* topological vertex order, where a further run finds the same weights
C25_FirstMaximalWins ==
    (Ran /\ endNode = NULL /\ vertices # <<>> /\ (runs = 1 \/ Topological)) =>
        FirstMaximalIsBest

\* the second and the third vertex share the maximal weight 2 and the second
\* is the best terminal vertex
C25_Witness ==
    /\ Ran /\ endNode = NULL /\ runs = 1
    /\ Len(vertices) = 3
    /\ vertices[1].weight = 0
    /\ vertices[2].weight = 2
    /\ vertices[3].weight = 2
    /\ SharedMaximum
    /\ highestWeightNode = 2

\* the vertex at which the walk along edgeForHWPath from the best terminal
\* vertex stops
ChainStop == walkBack(Graph, highestWeightNode, Len(vertices))

\* the best terminal vertex exists and its weight is not the unreached sentinel
ReachedTerminal == highestWeightNode # NULL /\ Score # INT_MIN

\* each edge of the winning path ends at the vertex it was read from: the last
\* at the best terminal vertex, every other at the start of the edge after it
ChainConnected ==
    \A n \in 1..Len(WinningPath) :
        edgeHeap[WinningPath[n]].end =
            IF n = Len(WinningPath) THEN highestWeightNode
            ELSE edgeHeap[WinningPath[n + 1]].start

(***************************************************************************)
(* C26.  After findHighestWeightPath on a graph in topological vertex      *)
(* order, when there is a best terminal vertex with a reached weight, the  *)
(* chain of edgeForHWPath from it is a connected directed path, the sum of *)
(* the weights of its edges is the score, also the reported one, and the   *)
(* vertex at which the chain stops is the one reported as                  *)
(* beginning_vertex; with no START vertex that vertex has weight 0.        *)
(***************************************************************************)
C26_ChainIsWinningPath ==
    (Ran /\ Topological /\ ReachedTerminal) =>
        /\ ChainStop # NULL
        /\ ChainConnected
        /\ ChainStop = IF WinningPath = <<>> THEN highestWeightNode
                       ELSE edgeHeap[WinningPath[1]].start
        /\ ChainWeight(WinningPath) = Score
        /\ startNode = NULL => vertices[ChainStop].weight = 0
        /\ pc = "reported" =>
              /\ ReportOf("score") = FormatInt(ChainWeight(WinningPath))
              /\ ReportOf("beginning_vertex") = vertices[ChainStop].label

\* a reported chain of two edges from the first vertex to the third
C26_Witness ==
    /\ Ran /\ Topological /\ ReachedTerminal
    /\ pc = "reported"
    /\ Len(WinningPath) = 2
    /\ highestWeightNode = 3
    /\ ChainStop = 1
    /\ Score = 4
    /\ ReportOf("beginning_vertex") = vertices[1].label

\* no edge starts and ends at the same vertex
NoSelfLoops == \A e \in 1..Len(edgeHeap) : edgeHeap[e].start # edgeHeap[e].end

\* every edgeForHWPath that is set ends at its vertex and starts at a vertex
\* enumerated before it
BackPointersGoBack ==
    \A v \in 1..Len(vertices) :
        vertices[v].edgeForHWPath # NULL =>
            /\ edgeHeap[vertices[v].edgeForHWPath].end = v
            /\ edgeHeap[vertices[v].edgeForHWPath].start < v

(***************************************************************************)
(* C27.  After the first findHighestWeightPath on a loaded graph without   *)
(* self-loop edges, whether or not its vertex order is topological, every  *)
(* edgeForHWPath that was set starts at a vertex enumerated strictly       *)
(* before the vertex it ends at; so the walk back of getPath and           *)
(* getPathStartNodeLabel, from any vertex, ends after fewer steps than     *)
(* there are vertices.                                                     *)
(***************************************************************************)
C27_WalkTerminates ==
    (Ran /\ runs = 1 /\ NoSelfLoops) =>
        /\ BackPointersGoBack
        /\ BackPointersGoBack =>
              /\ \A v \in 1..Len(vertices) : Len(WinningPathTo(v)) < Len(vertices)
              /\ walkEnds(Graph)
              /\ pc # "hung"

\* a graph that is not in topological order: the edge from the second vertex to
\* the first is not taken, the one from the second to the third is
C27_Witness ==
    /\ Ran /\ runs = 1 /\ NoSelfLoops /\ ~Topological
    /\ pc = "reported"
    /\ Len(vertices) = 3
    /\ \E e \in 1..Len(edgeHeap) :
          edgeHeap[e].start = 2 /\ edgeHeap[e].end = 1 /\ edgeHeap[e].weight = 2
    /\ vertices[1].edgeForHWPath = NULL
    /\ vertices[3].edgeForHWPath # NULL
    /\ edgeHeap[vertices[3].edgeForHWPath].start = 2
    /\ highestWeightNode = 3

\* the description is as buildGraphFile wrote it, no vertex line marked
AsWritten == Built /\ ~Marked(graphFile, tSTART) /\ ~Marked(graphFile, tEND)

\* the n-th edge line of a description whose vertex lines come first
EdgeLine(n) == graphFile[Cardinality(VertexLines) + n]

\* the weight the builder computed for an edge line, from the residues of its
\* label
ComputedWeight(line) == sumOfPairsWeight(line[2][1], line[2][2], line[2][3])

(***************************************************************************)
(* C28.  Loading the description written by buildGraphFile reproduces the  *)
(* built graph: the vertex list has the labels of the vertex lines in      *)
(* their order, there is no START and no END vertex, both endpoint labels  *)
(* of every edge line are labels of registered vertices, and the n-th      *)
(* loaded edge has the label, the start, the end and the weight the        *)
(* builder computed for the n-th edge line.                                *)
(***************************************************************************)
C28_LoadReproducesBuiltGraph ==
    (AsWritten /\ Loaded) =>
        /\ VertexLines = 1..Len(vertices)
        /\ \A v \in 1..Len(vertices) :
              /\ vertices[v].label = LabelOfLine(v)
              /\ verticeMap[LabelOfLine(v)] = v
        /\ startNode = NULL
        /\ endNode = NULL
        /\ Len(edgeHeap) = Cardinality(EdgeLines)
        /\ \A n \in 1..Len(edgeHeap) :
              /\ EdgeLine(n)[1] = tE
              /\ EdgeLine(n)[3] \in DOMAIN verticeMap
              /\ EdgeLine(n)[4] \in DOMAIN verticeMap
              /\ edgeHeap[n].label = EdgeLine(n)[2]
              /\ vertices[edgeHeap[n].start].label = EdgeLine(n)[3]
              /\ vertices[edgeHeap[n].end].label = EdgeLine(n)[4]
              /\ edgeHeap[n].weight = ComputedWeight(EdgeLine(n))

\* the graph of AC, A, C is loaded: 12 vertices, and its first edge is A-- from
\* 0,0,0 to 1,0,0 with the negative weight -12
C28_Witness ==
    /\ AsWritten /\ Loaded
    /\ fasta = << <<"A", "C">>, <<"A">>, <<"C">> >>
    /\ Len(vertices) = 12
    /\ Len(edgeHeap) > 0
    /\ edgeHeap[1].label = <<"A", "-", "-">>
    /\ vertices[edgeHeap[1].start].label = TripleText(0, 0, 0)
    /\ vertices[edgeHeap[1].end].label = TripleText(1, 0, 0)
    /\ edgeHeap[1].weight = -12
    /\ \E n \in 1..Len(edgeHeap) : edgeHeap[n].weight > 0

\* at least one of the three sequences handed to the builder is empty
OneSequenceEmpty == \E n \in 1..3 : fasta[n] = <<>>

\* every edge line has a gap in its label and a strictly negative weight
EdgesGappedAndNegative ==
    \A e \in EdgeLines :
        /\ \E n \in 1..3 : graphFile[e][2][n] = gapChar
        /\ ComputedWeight(graphFile[e]) < 0
        /\ Atof(graphFile[e][5]) < 0

\* score 0 at the best terminal vertex 0,0,0 with an empty path, also as
\* resultString reports them
ScoreZeroAtOrigin ==
    /\ highestWeightNode = 1
    /\ vertices[1].label = TripleText(0, 0, 0)
    /\ Score = 0
    /\ WinningPath = <<>>
    /\ pc = "reported" =>
          /\ ReportOf("score") = <<"0">>
          /\ ReportOf("beginning_vertex") = TripleText(0, 0, 0)
          /\ ReportOf("end_vertex") = TripleText(0, 0, 0)
          /\ ReportOf("path") = <<>>

(***************************************************************************)
(* C29.  When at least one of the three sequences is empty, every edge the *)
(* builder writes has a gap in its label and a strictly negative weight,   *)
(* and findHighestWeightPath on the unmarked graph gives score 0 with the  *)
(* best terminal vertex 0,0,0 and an empty path.  Stated for all sequences *)
(* the builder accepts.                                                    *)
(***************************************************************************)
C29_AnySequences ==
    (Built /\ OneSequenceEmpty) =>
        /\ EdgesGappedAndNegative
        /\ (AsWritten /\ Ran) => ScoreZeroAtOrigin

\* whatever the residues, an edge label with one or two gaps has a strictly
\* negative weight: no entry of the matrix reaches the cost of two gaps
GappedWeightsNegative ==
    \A a, b \in Alphabet :
        /\ sumOfPairsWeight(a, b, gapChar) < 0
        /\ sumOfPairsWeight(a, gapChar, b) < 0
        /\ sumOfPairsWeight(gapChar, a, b) < 0
        /\ sumOfPairsWeight(a, gapChar, gapChar) < 0
        /\ sumOfPairsWeight(gapChar, a, gapChar) < 0
        /\ sumOfPairsWeight(gapChar, gapChar, a) < 0

\* the same for sequences of residues
C29_EmptySequenceScoresZero ==
    (Built /\ ResidueInput /\ OneSequenceEmpty) =>
        /\ EdgesGappedAndNegative
        /\ GappedWeightsNegative
        /\ (AsWritten /\ Ran) => ScoreZeroAtOrigin

\* AC, AC and the empty sequence: a graph of 9 vertices whose edges include the
\* pair edge AA-, reported with score 0
C29_Witness ==
    /\ AsWritten /\ Ran /\ ResidueInput /\ OneSequenceEmpty
    /\ fasta = << <<"A", "C">>, <<"A", "C">>, <<>> >>
    /\ pc = "reported"
    /\ Len(vertices) = 9
    /\ \E e \in 1..Len(edgeHeap) : edgeHeap[e].label = <<"A", "A", "-">>
    /\ ReportOf("score") = <<"0">>
    /\ ReportOf("path") = <<>>

\* the labels of the vertex lines
FileVertices == {LabelOfLine(v) : v \in VertexLines}

\* the edge lines that start at the vertex labelled label
OutgoingLines(label) == {e \in EdgeLines : graphFile[e][3] = label}

RECURSIVE ReachedFrom(_)
\* the labels reached from those of S along edge lines, S included
ReachedFrom(S) ==
    LET T == S \cup {graphFile[e][4] : e \in {l \in EdgeLines : graphFile[l][3] \in S}}
    IN  IF T = S THEN S ELSE ReachedFrom(T)

RECURSIVE Reaching(_)
\* the labels from which one of S is reached along edge lines, S included
Reaching(S) ==
    LET T == S \cup {graphFile[e][3] : e \in {l \in EdgeLines : graphFile[l][4] \in S}}
    IN  IF T = S THEN S ELSE Reaching(T)

\* n1,n2,n3 is the only vertex without outgoing edges and every vertex lies on
\* a directed path from 0,0,0 to n1,n2,n3
SingleSinkAllOnPath ==
    /\ VertexLabel(0, 0, 0) \in FileVertices
    /\ VertexLabel(n1, n2, n3) \in FileVertices
    /\ \A label \in FileVertices :
          /\ (OutgoingLines(label) = {}) = (label = VertexLabel(n1, n2, n3))
          /\ label \in ReachedFrom({VertexLabel(0, 0, 0)})
          /\ label \in Reaching({VertexLabel(n1, n2, n3)})

(***************************************************************************)
(* C30.  In the graph buildGraphFile writes, the vertex n1,n2,n3 is the    *)
(* only vertex without outgoing edges and every vertex lies on a directed  *)
(* path from 0,0,0 to n1,n2,n3.  Stated for all sequences the builder      *)
(* accepts.                                                                *)
(***************************************************************************)
C30_AnySequences == Built => SingleSinkAllOnPath

\* the same for sequences of residues, of any lengths
C30_SingleSink == (Built /\ ResidueInput) => SingleSinkAllOnPath

\* AC, A, C: at 2,1,0 the first two sequences are exhausted and one edge leads
\* on, to 2,1,1
C30_Witness ==
    /\ Built /\ ResidueInput
    /\ fasta = << <<"A", "C">>, <<"A">>, <<"C">> >>
    /\ Cardinality(FileVertices) = 12
    /\ Cardinality(OutgoingLines(TripleText(2, 1, 0))) = 1
    /\ \E e \in OutgoingLines(TripleText(2, 1, 0)) : graphFile[e][4] = TripleText(2, 1, 1)
    /\ OutgoingLines(TripleText(2, 1, 1)) = {}
    /\ TripleText(2, 1, 0) \in ReachedFrom({TripleText(0, 0, 0)})

====
